---- MODULE Spec2Model ----
(***************************************************************************)
(* Exact inference on discrete Bayesian networks by variable elimination:  *)
(* BayesianNetwork.__init__ / prepare / ancestors / variable_elimination / *)
(* query (src/BayesianNetwork.py) and the table operations sum_out,        *)
(* pointwise_mul_two, pointwise_mul (src/Util.py).                         *)
(*                                                                         *)
(* A table (pandas Series with a named index) is a record                  *)
(*   [names |-> sequence of level names, rows |-> sequence of <<key, w>>]  *)
(* where key is the sequence of level values of the row and w its weight.  *)
(* Rows are kept as a sequence, so a table may hold the same key twice.    *)
(* Weights of unnormalised tables are held as integer multiples of a       *)
(* common unit (1/Denom per multiplied CPT), which is exact arithmetic;    *)
(* the division by the total yields reduced fractions <<num, den>>, or     *)
(* "NaN" for 0/0.  Floating rounding is not modelled.                      *)
(***************************************************************************)
EXTENDS Integers, Sequences, FiniteSets, TLC

\* ------------------------------------------------------------ universe --

\* Variable identifiers, in lexical order (Python's sorted() on the names).
VarOrder == <<"A", "B", "C">>

AllVars == {VarOrder[i] : i \in 1..Len(VarOrder)}

\* A label no node carries (an explicit level name that is not a variable).
Foreign == "Z"

\* Unlabeled index level (pandas' None).
NoName == "None"

\* Domain of every variable (False, True of Alarm.py as 0, 1).
Vals == {0, 1}

\* CPT entries are multiples of 1/Denom.
Denom == 2

\* Numerators of P(node = 1 | parents) a supplied CPT may use: an entry is
\* 0 or 1/Denom, its complement 1 or (Denom - 1)/Denom.
Numerators == {0, 1}

\* Largest number of edges of a network that is populated and queried.
MaxEdges == 2

\* Largest number of items of a structure passed to the constructor.
MaxItems == 2

\* ------------------------------------------------------------- helpers --

Rank(v) == CHOOSE i \in 1..Len(VarOrder) : VarOrder[i] = v

Range(s) == {s[i] : i \in 1..Len(s)}

IndexOf(s, x) == IF x \in Range(s) THEN CHOOSE i \in 1..Len(s) : s[i] = x /\ \A j \in 1..(i-1) : s[j] # x ELSE 0

RemoveAt(s, i) == SubSeq(s, 1, i - 1) \o SubSeq(s, i + 1, Len(s))

Reverse(s) == [i \in 1..Len(s) |-> s[Len(s) + 1 - i]]

RECURSIVE SortedVars(_)
\* sorted(S) for a set of variable names
SortedVars(S) ==
    IF S = {} THEN <<>>
    ELSE LET m == CHOOSE v \in S : \A o \in S : Rank(v) <= Rank(o)
         IN  <<m>> \o SortedVars(S \ {m})

RECURSIVE Flatten(_)
Flatten(ss) == IF ss = <<>> THEN <<>> ELSE Head(ss) \o Flatten(Tail(ss))

RECURSIVE GCD(_, _)
GCD(a, b) == IF b = 0 THEN a ELSE GCD(b, a % b)

\* ------------------------------------------------------- graph builder --

\* A structure item: a bare node <<"node", {v}, {}>> or an edge tuple
\* <<"edge", parents side, children side>>, each side a single node or a
\* list of nodes (convert_list), held as a non-empty set.
NodeItems == {<<"node", {v}, {}>> : v \in AllVars}

Sides == (SUBSET AllVars) \ {{}}

EdgeItems == {<<"edge", ps, cs>> : ps \in Sides, cs \in Sides}

\* itertools.product over every edge tuple of the structure.
ExpandEdges(struct) ==
    UNION {it[2] \X it[3] : it \in {i \in struct : i[1] = "edge"}}

BareNodes(struct) == UNION {it[2] : it \in {i \in struct : i[1] = "node"}}

\* Variant of ParentsOf: an edge from a node to itself is not recorded.
ParentsOfNoSelf(edges) ==
    [n \in {e[2] : e \in {x \in edges : x[1] # x[2]}} |->
        SortedVars({e[1] : e \in {x \in edges : x[2] = n /\ x[1] # x[2]}})]

\* self.parents / self.children after the sort: only nodes that have some.
ParentsOf(edges) ==
    [n \in {e[2] : e \in edges} |-> SortedVars({e[1] : e \in {x \in edges : x[2] = n}})]

ChildrenOf(edges) ==
    [n \in {e[1] : e \in edges} |-> SortedVars({e[2] : e \in {x \in edges : x[1] = n}})]

\* self.parents.get(node, [])
GetParents(par, n) == IF n \in DOMAIN par THEN par[n] ELSE <<>>

RECURSIVE InsertionOrder(_, _, _)
\* Order in which TopologicalSorter.add first sees the nodes: the node of
\* each add call, then its predecessors.
InsertionOrder(todo, par, seen) ==
    IF todo = <<>> THEN seen
    ELSE LET new == SelectSeq(<<Head(todo)>> \o GetParents(par, Head(todo)),
                              LAMBDA x : x \notin Range(seen))
             \* a node that is its own first predecessor is inserted once
             dedup == IF Len(new) > 1 /\ new[1] \in Range(Tail(new))
                      THEN <<new[1]>> \o SelectSeq(Tail(new), LAMBDA x : x # new[1])
                      ELSE new
         IN  InsertionOrder(Tail(todo), par, seen \o dedup)

RECURSIVE StaticOrder(_, _, _, _)
\* TopologicalSorter.static_order: groups of ready nodes, each group passed
\* out and then marked done, which readies the successors whose predecessor
\* count drops to zero.  npred maps each node to its remaining count.
StaticOrder(ready, npred, succ, out) ==
    IF ready = <<>> THEN out
    ELSE LET RECURSIVE Done(_, _, _)
             Done(grp, np, rdy) ==
                 IF grp = <<>> THEN <<np, rdy>>
                 ELSE LET RECURSIVE Dec(_, _, _)
                          Dec(ss, np2, rdy2) ==
                              IF ss = <<>> THEN <<np2, rdy2>>
                              ELSE LET s  == Head(ss)
                                       n3 == [np2 EXCEPT ![s] = @ - 1]
                                   IN  Dec(Tail(ss), n3,
                                           IF n3[s] = 0 THEN Append(rdy2, s) ELSE rdy2)
                          r == Dec(succ[Head(grp)], np, rdy)
                      IN  Done(Tail(grp), r[1], r[2])
             d == Done(ready, npred, <<>>)
         IN  StaticOrder(d[2], d[1], succ, out \o ready)

\* Lines 64-67: the sorter fed in sorted node order, then static_order().
\* A result shorter than the node set means prepare() found a cycle.
TopoOrder(all, par) ==
    LET order == SortedVars(all)
        ins   == InsertionOrder(order, par, <<>>)
        npred == [n \in all |-> Len(GetParents(par, n))]
        succ  == [p \in all |-> SelectSeq(order, LAMBDA n : p \in Range(GetParents(par, n)))]
        ready == SelectSeq(ins, LAMBDA n : npred[n] = 0)
    IN  StaticOrder(ready, npred, succ, <<>>)

\* -------------------------------------------------------------- tables --

Table(names, rows) == [names |-> names, rows |-> rows]

\* What a call that raised returns: nothing.
NoTable == Table(<<>>, <<>>)

LexLess(a, b) == \E i \in 1..Len(a) : a[i] < b[i] /\ \A j \in 1..(i - 1) : a[j] = b[j]

RECURSIVE SortedKeys(_)
\* The keys of a set in ascending order.
SortedKeys(S) ==
    IF S = {} THEN <<>>
    ELSE LET m == CHOOSE k \in S : \A o \in S : o = k \/ LexLess(k, o)
         IN  <<m>> \o SortedKeys(S \ {m})

RECURSIVE SumW(_)
SumW(rows) == IF rows = <<>> THEN 0 ELSE Head(rows)[2] + SumW(Tail(rows))

RECURSIVE InsertRow(_, _)
InsertRow(sorted, r) ==
    IF sorted = <<>> THEN <<r>>
    ELSE IF LexLess(r[1], Head(sorted)[1]) THEN <<r>> \o sorted
    ELSE <<Head(sorted)>> \o InsertRow(Tail(sorted), r)

RECURSIVE SortRows(_)
\* Rows in ascending key order, rows of equal key in their former order.
SortRows(rows) ==
    IF rows = <<>> THEN <<>>
    ELSE InsertRow(SortRows(SubSeq(rows, 1, Len(rows) - 1)), rows[Len(rows)])

\* Series.sort_index()
sort_index(t) == Table(t.names, SortRows(t.rows))

\* Series.reorder_levels(order)
reorder_levels(t, order) ==
    Table(order,
          [k \in 1..Len(t.rows) |->
              <<[j \in 1..Len(order) |-> t.rows[k][1][IndexOf(t.names, order[j])]],
                t.rows[k][2]>>])

\* factor[factor.index.get_level_values(var) == val]: the level stays.
restrict(t, var, val) ==
    LET i == IndexOf(t.names, var)
    IN  Table(t.names, SelectSeq(t.rows, LAMBDA r : r[1][i] = val))

\* Level names of the product of two tables: left then right when no name
\* is shared (DataFrame.stack); otherwise those of Index.join: the shared
\* levels, then the left-only, then the right-only levels when both are
\* MultiIndexes of different names, the MultiIndex's own names when the other
\* side is a flat Index.
JoinNames(ln, rn) ==
    LET ov == SelectSeq(ln, LAMBDA x : x \in Range(rn))
        ld == SelectSeq(ln, LAMBDA x : x \notin Range(rn))
        rd == SelectSeq(rn, LAMBDA x : x \notin Range(ln))
    IN  IF ov = <<>> THEN ln \o rn
        ELSE IF ln = rn THEN ln
        ELSE IF Len(ln) > 1 /\ Len(rn) > 1 THEN ov \o ld \o rd
        ELSE IF Len(ln) > 1 THEN ln
        ELSE rn

\* One row per pair of a left and a right row that agree on every shared
\* level (every pair when none is shared), weighted by the product.
pointwise_mul_two(left, right) ==
    LET ln     == left.names
        rn     == right.names
        names  == JoinNames(ln, rn)
        \* where each level of the result is read: side and position
        from   == [j \in 1..Len(names) |->
                     IF names[j] \in Range(ln) THEN <<1, IndexOf(ln, names[j])>>
                     ELSE <<2, IndexOf(rn, names[j])>>]
        \* the rows hold the same value at every level the indexes share
        Agree(l, r) == \A i \in 1..Len(ln), j \in 1..Len(rn) :
                          ln[i] = rn[j] => l[1][i] = r[1][j]
        Key(l, r) == [j \in 1..Len(names) |->
                         IF from[j][1] = 1 THEN l[1][from[j][2]] ELSE r[1][from[j][2]]]
        Pairs(l) == LET m == SelectSeq(right.rows, LAMBDA r : Agree(l, r))
                    IN  [k \in 1..Len(m) |-> <<Key(l, m[k]), l[2] * m[k][2]>>]
    IN  Table(names, Flatten([i \in 1..Len(left.rows) |-> Pairs(left.rows[i])]))

RECURSIVE Reduce(_, _)
Reduce(acc, rest) ==
    IF rest = <<>> THEN acc ELSE Reduce(pointwise_mul_two(acc, Head(rest)), Tail(rest))

\* functools.reduce(pointwise_mul_two, cpts), cpts not empty
pointwise_mul(ts) == Reduce(Head(ts), Tail(ts))

\* series.groupby(the other levels).sum(): one row per distinct key of the
\* remaining levels, keys ascending.
sum_out(t, var) ==
    LET i    == IndexOf(t.names, var)
        Proj(r) == RemoveAt(r[1], i)
        keys == SortedKeys({Proj(t.rows[k]) : k \in 1..Len(t.rows)})
    IN  Table(RemoveAt(t.names, i),
              [j \in 1..Len(keys) |->
                  <<keys[j], SumW(SelectSeq(t.rows, LAMBDA r : Proj(r) = keys[j]))>>])

RECURSIVE MaxW(_)
MaxW(rows) ==
    IF rows = <<>> THEN 0
    ELSE LET m == MaxW(Tail(rows)) IN IF Head(rows)[2] > m THEN Head(rows)[2] ELSE m

\* w / total as a reduced fraction; 0/0 is NaN, held as <<0, 0>>.
Frac(w, total) ==
    IF total = 0 THEN <<0, 0>>
    ELSE LET g == GCD(w, total) IN <<w \div g, total \div g>>

\* Variant of Normalize: posterior / posterior.max()
NormalizeByMax(t) ==
    LET total == MaxW(t.rows)
    IN  Table(t.names, [k \in 1..Len(t.rows) |-> <<t.rows[k][1], Frac(t.rows[k][2], total)>>])

\* posterior / posterior.sum()
Normalize(t) ==
    LET total == SumW(t.rows)
    IN  Table(t.names, [k \in 1..Len(t.rows) |-> <<t.rows[k][1], Frac(t.rows[k][2], total)>>])

\* Variant of droplevel: no level is dropped.
droplevelNone(t, drop) == t

\* index.droplevel(levels)
droplevel(t, drop) ==
    LET keep == SelectSeq([i \in 1..Len(t.names) |-> i], LAMBDA i : t.names[i] \notin drop)
    IN  Table([j \in 1..Len(keep) |-> t.names[keep[j]]],
              [k \in 1..Len(t.rows) |->
                  <<[j \in 1..Len(keep) |-> t.rows[k][1][keep[j]]], t.rows[k][2]>>])

\* ----------------------------------------------------------- inference --

RECURSIVE ancestors(_, _)
ancestors(par, node) ==
    LET ps == GetParents(par, node)
    IN  IF ps # <<>>
        THEN Range(ps) \cup UNION {ancestors(par, ps[i]) : i \in 1..Len(ps)}
        ELSE {}

\* Lines 125-128
Relevant(par, q, ev) ==
    LET base == q \cup DOMAIN ev
    IN  base \cup UNION {ancestors(par, n) : n \in base}

\* Line 130
Hidden(par, q, ev) == Relevant(par, q, ev) \ (q \cup DOMAIN ev)

RECURSIVE RestrictAll(_, _, _)
\* Lines 137-140 for one factor; evs is the evidence's keys in any order.
RestrictAll(t, ev, evs) ==
    IF evs = {} THEN t
    ELSE LET v == CHOOSE x \in evs : TRUE
         IN  RestrictAll(IF v \in Range(t.names) THEN restrict(t, v, ev[v]) ELSE t,
                         ev, evs \ {v})

\* Variant of InitialFactors: a factor for every node of the store, not
\* only the relevant ones.
InitialFactorsAll(Pm, order, ev) ==
    LET every == order \o SortedVars(DOMAIN Pm \ Range(order))
    IN  [i \in 1..Len(every) |-> RestrictAll(Pm[every[i]], ev, DOMAIN ev)]

\* Lines 133-142: one restricted copy of the CPT of each node of order,
\* order being the iteration order of the set relevant.
InitialFactors(Pm, order, ev) ==
    [i \in 1..Len(order) |-> RestrictAll(Pm[order[i]], ev, DOMAIN ev)]

\* Variant of StoreAfterInit: no copy is taken and the rows are dropped in
\* place, so the store keeps the filtered tables.
StoreAfterInitInPlace(Pm, order, ev) ==
    [n \in DOMAIN Pm |-> IF n \in Range(order) THEN RestrictAll(Pm[n], ev, DOMAIN ev) ELSE Pm[n]]

\* The effect of lines 136-140 on self.P: the factor is a copy, and the
\* filter builds a new Series, so the stored tables are left alone.
StoreAfterInit(Pm, order, ev) == Pm

\* Variant of Popped: only the last factor that names the node is joined.
PoppedLastOnly(fs, node) ==
    SubSeq(Reverse(SelectSeq(fs, LAMBDA f : node \in Range(f.names))), 1, 1)

\* Variant of Remaining: the joined factors are read but not popped.
RemainingAll(fs, node) == fs

\* Lines 147-151: the factors whose index names the node, popped from the
\* back of the list to its front.
Popped(fs, node) == Reverse(SelectSeq(fs, LAMBDA f : node \in Range(f.names)))

Remaining(fs, node) == SelectSeq(fs, LAMBDA f : node \notin Range(f.names))

\* Lines 147-154 for one hidden node that some factor names.
EliminateStep(fs, node) ==
    Append(Remaining(fs, node), sum_out(pointwise_mul(Popped(fs, node)), node))

\* Lines 157-162
Posterior(fs, q) ==
    LET joint == Normalize(pointwise_mul(fs))
    IN  droplevel(joint, Range(joint.names) \ q)

\* Lines 185-188
Shape(t) ==
    sort_index(IF Len(t.names) > 1
               THEN reorder_levels(t, SortedVars(Range(t.names)))
               ELSE t)

\* ------------------------------------------------------------ CPT store --

\* [*self.parents[node], node]
CanonNames(par, n) == GetParents(par, n) \o <<n>>

\* Lines 80-86 for one entry of self.P: what the store holds afterwards.
\* A root's table is renamed and sorted in place; a table whose labels are
\* the canonical ones in some order is reordered into a new Series bound
\* only to the loop variable, so the sort on line 86 acts on that new Series
\* and the stored one stays as supplied; any other table is relabeled
\* positionally in place and sorted.  Tables are supplied with as many
\* levels as the node's scope has.
PrepareOne(par, n, t) ==
    IF n \notin DOMAIN par THEN sort_index(Table(<<n>>, t.rows))
    ELSE IF Range(t.names) = Range(CanonNames(par, n)) THEN t
    ELSE sort_index(Table(CanonNames(par, n), t.rows))

\* All assignments of k levels, last level varying fastest, descending
\* (True before False, as Alarm.py writes its tables).
KeysDesc(k) == Reverse(SortedKeys([1..k -> Vals]))

\* A valid CPT of a node with np parents, rows keyed in canonical level
\* order: f gives the numerator of P(node = 1 | parent values).
CptRows(np, f) ==
    LET ks == KeysDesc(np + 1)
    IN  [i \in 1..Len(ks) |->
            <<ks[i], IF ks[i][np + 1] = 1 THEN f[SubSeq(ks[i], 1, np)]
                     ELSE Denom - f[SubSeq(ks[i], 1, np)]>>]

CptChoices(np) == {CptRows(np, f) : f \in [[1..np -> Vals] -> Numerators]}

Perms(S) == {s \in [1..Cardinality(S) -> S] : \A i, j \in 1..Cardinality(S) : s[i] = s[j] => i = j}

\* Tables a caller may store for node n: positional (unlabeled) ones.
PositionalTables(par, n) ==
    LET np == Len(GetParents(par, n))
    IN  {Table([i \in 1..(np + 1) |-> NoName], rows) : rows \in CptChoices(np)}

\* Tables explicitly labeled with the node's scope, levels in any order.
LabeledTables(par, n) ==
    LET np == Len(GetParents(par, n))
        cn == CanonNames(par, n)
    IN  {reorder_levels(Table(cn, rows), labels) :
            rows \in CptChoices(np), labels \in Perms(Range(cn))}

\* Tables explicitly labeled with something else: one level carries a label
\* that is no variable of the node's scope.
MislabeledTables(par, n) ==
    LET np == Len(GetParents(par, n))
        cn == CanonNames(par, n)
    IN  {Table([cn EXCEPT ![i] = Foreign], rows) :
            rows \in CptChoices(np), i \in 1..(np + 1)}

\* --------------------------------------------------------------- state --

VARIABLES
    structure,   \* the constructor's arguments
    phase,       \* "new", "failed", "built", "populated", "prepared" (no call
                 \* in progress), "eliminating", "returned" (a call ended)
    outcome,     \* how the last call ended: "none", "ok" or the error raised
    parents,     \* self.parents
    children,    \* self.children
    nodes,       \* self.nodes
    P,           \* self.P
    supplied,    \* the tables as the caller stored them, kept for reference
    qvars,       \* the query variables of the last query call
    evid,        \* its evidence
    invoked,     \* whether that call entered variable_elimination
    factors,     \* the working list of the elimination loop
    todo,        \* hidden variables the loop has not processed yet
    processed,   \* hidden variables the loop has processed
    posterior,   \* what variable_elimination returned
    answer       \* what query returned

net == <<parents, children, nodes, P>>

call == <<qvars, evid, invoked, factors, todo, processed, posterior, answer>>

vars == <<structure, phase, outcome, net, supplied, call>>

Empty == [x \in {} |-> 0]

\* BayesianNetwork(*structure)
Construct ==
    /\ phase = "new"
    /\ LET edges == ExpandEdges(structure)
           par   == ParentsOf(edges)
           chi   == ChildrenOf(edges)
           all   == DOMAIN par \cup DOMAIN chi \cup BareNodes(structure)
           topo  == TopoOrder(all, par)
       IN  IF Len(topo) = Cardinality(all)
           THEN /\ parents' = par
                /\ children' = chi
                /\ nodes' = topo
                /\ P' = Empty
                /\ phase' = "built"
                /\ outcome' = "ok"
           ELSE /\ phase' = "failed"
                /\ outcome' = "CycleError"
                /\ UNCHANGED net
    /\ UNCHANGED <<structure, supplied, call>>

\* Tables a caller may store for node n: positional ones only, or of any
\* labeling.
TablesFor(par, n, anyLabels) ==
    IF anyLabels
    THEN PositionalTables(par, n) \cup LabeledTables(par, n) \cup MislabeledTables(par, n)
    ELSE PositionalTables(par, n)

RECURSIVE Stores(_, _, _)
\* The stores that hold one such table for each node of S.
Stores(par, S, anyLabels) ==
    IF S = {} THEN {Empty}
    ELSE LET n == CHOOSE x \in S : TRUE
         IN  {g @@ (n :> t) : g \in Stores(par, S \ {n}, anyLabels),
                              t \in TablesFor(par, n, anyLabels)}

\* bn.P[node] = table for every node (Alarm.py 19-46), tables positional.
Populate ==
    /\ phase = "built"
    /\ \E tables \in Stores(parents, Range(nodes), FALSE) :
          /\ P' = tables
          /\ supplied' = tables
    /\ phase' = "populated"
    /\ outcome' = "ok"
    /\ UNCHANGED <<structure, parents, children, nodes, call>>

\* The same with tables of any labeling.
PopulateLabeled ==
    /\ phase = "built"
    /\ \E tables \in Stores(parents, Range(nodes), TRUE) :
          /\ P' = tables
          /\ supplied' = tables
    /\ phase' = "populated"
    /\ outcome' = "ok"
    /\ UNCHANGED <<structure, parents, children, nodes, call>>

\* bn.prepare()
Prepare ==
    /\ phase = "populated"
    /\ P' = [n \in DOMAIN P |-> PrepareOne(parents, n, P[n])]
    /\ phase' = "prepared"
    /\ outcome' = "none"
    /\ UNCHANGED <<structure, parents, children, nodes, supplied, call>>

\* Evidence: a value for each variable of some set of nodes.
Evidences(S) == UNION {[E -> Vals] : E \in SUBSET S}

\* Variant of Validate: the loop over the query variables is missing.
ValidateEmptyOnly(q, ev) == IF q = {} THEN "EmptyQueryError" ELSE "ok"

\* Lines 172-177: the error query raises for these arguments, or "ok".
\* Both errors are ValueErrors in the code, told apart by their message.
Validate(q, ev) ==
    IF q = {} THEN "EmptyQueryError"
    ELSE IF \E v \in q : v \in DOMAIN ev THEN "VariableConflictError"
    ELSE "ok"

\* bn.query(*q, evidence=ev) when lines 172-177 raise.
QueryRaise(q, ev) ==
    /\ phase = "prepared"
    /\ Validate(q, ev) # "ok"
    /\ outcome' = Validate(q, ev)
    /\ qvars' = q
    /\ evid' = ev
    /\ invoked' = FALSE
    /\ factors' = <<>>
    /\ todo' = {}
    /\ processed' = {}
    /\ posterior' = NoTable
    /\ answer' = NoTable
    /\ phase' = "returned"
    /\ UNCHANGED <<structure, net, supplied>>

\* bn.query(*q, evidence=ev) up to line 142 of variable_elimination; order
\* is the order in which the set relevant is iterated.
QueryStart(q, ev, order) ==
    /\ phase = "prepared"
    /\ Validate(q, ev) = "ok"
    /\ Range(order) = Relevant(parents, q, ev)
    /\ qvars' = q
    /\ evid' = ev
    /\ invoked' = TRUE
    /\ factors' = InitialFactors(P, order, ev)
    /\ P' = StoreAfterInit(P, order, ev)
    /\ todo' = Hidden(parents, q, ev)
    /\ processed' = {}
    /\ posterior' = NoTable
    /\ answer' = NoTable
    /\ phase' = "eliminating"
    /\ outcome' = "none"
    /\ UNCHANGED <<structure, parents, children, nodes, supplied>>

\* One iteration of the loop of lines 145-154, for any node of hidden not
\* processed yet: the set's iteration order is arbitrary.
Eliminate(h) ==
    /\ phase = "eliminating"
    /\ h \in todo
    /\ IF Popped(factors, h) = <<>>
       THEN \* reduce() of an empty iterable
            /\ outcome' = "TypeError"
            /\ phase' = "returned"
            /\ factors' = <<>>
            /\ todo' = {}
            /\ processed' = {}
       ELSE IF \A f \in Range(Popped(factors, h)) : f.names = <<h>>
       THEN \* the product has the one level h: groupby() with no keys
            /\ outcome' = "ValueError"
            /\ phase' = "returned"
            /\ factors' = <<>>
            /\ todo' = {}
            /\ processed' = {}
       ELSE /\ factors' = EliminateStep(factors, h)
            /\ todo' = todo \ {h}
            /\ processed' = processed \cup {h}
            /\ UNCHANGED <<phase, outcome>>
    /\ UNCHANGED <<structure, net, supplied, qvars, evid, invoked, posterior, answer>>

\* Lines 156-163, then lines 181-188 of query.
Finish ==
    /\ phase = "eliminating"
    /\ todo = {}
    /\ posterior' = Posterior(factors, qvars)
    /\ answer' = Shape(posterior')
    /\ factors' = <<>>
    /\ processed' = {}
    /\ phase' = "returned"
    /\ outcome' = "ok"
    /\ UNCHANGED <<structure, net, supplied, qvars, evid, invoked, todo>>

\* The caller is done with the call's result or error; nothing of the call
\* is kept, and the network is ready for the next call.
Release ==
    /\ phase = "returned"
    /\ phase' = "prepared"
    /\ outcome' = "none"
    /\ qvars' = {}
    /\ evid' = Empty
    /\ invoked' = FALSE
    /\ posterior' = NoTable
    /\ answer' = NoTable
    /\ UNCHANGED <<structure, net, supplied, factors, todo, processed>>

RECURSIVE SetsUpTo(_, _)
\* The subsets of S of at most k elements.
SetsUpTo(S, k) ==
    IF k = 0 THEN {{}}
    ELSE LET smaller == SetsUpTo(S, k - 1)
         IN  smaller \cup {s \cup {x} : s \in smaller, x \in S}

NoCall ==
    /\ qvars = {}
    /\ evid = Empty
    /\ invoked = FALSE
    /\ factors = <<>>
    /\ todo = {}
    /\ processed = {}
    /\ posterior = NoTable
    /\ answer = NoTable

NoNet ==
    /\ parents = Empty
    /\ children = Empty
    /\ nodes = <<>>
    /\ P = Empty
    /\ supplied = Empty

\* Any structure of at most MaxItems items.
InitBuild ==
    /\ structure \in SetsUpTo(NodeItems \cup EdgeItems, MaxItems)
    /\ phase = "new"
    /\ outcome = "none"
    /\ NoNet
    /\ NoCall

NextBuild == Construct

SpecBuild == InitBuild /\ [][NextBuild]_vars

\* Edges between single nodes, self-edges included.
SingleEdges == {<<"edge", {e[1]}, {e[2]}>> : e \in AllVars \X AllVars}

\* Every variable named as a node, and at most MaxEdges edges of any direction.
InitAny ==
    /\ structure \in {NodeItems \cup E : E \in SetsUpTo(SingleEdges, MaxEdges)}
    /\ phase = "new"
    /\ outcome = "none"
    /\ NoNet
    /\ NoCall

\* A call of query with any query variables and evidence over the nodes.
QueryFails ==
    /\ phase = "prepared"
    /\ \E q \in SUBSET Range(nodes), ev \in Evidences(Range(nodes)) : QueryRaise(q, ev)

QueryRuns ==
    /\ phase = "prepared"
    /\ \E q \in SUBSET Range(nodes), ev \in Evidences(Range(nodes)) :
          /\ Validate(q, ev) = "ok"
          /\ \E order \in Perms(Relevant(parents, q, ev)) : QueryStart(q, ev, order)

EliminateAny ==
    /\ phase = "eliminating"
    /\ \E h \in todo : Eliminate(h)

Next ==
    \/ Construct
    \/ Populate
    \/ Prepare
    \/ QueryFails
    \/ QueryRuns
    \/ EliminateAny
    \/ Finish
    \/ Release

Spec == InitAny /\ [][Next]_vars

NextPrepare == Construct \/ PopulateLabeled \/ Prepare

SpecPrepare == InitAny /\ [][NextPrepare]_vars

\* ----------------------------------------------------------- reference --

RECURSIVE Closure(_)
\* Transitive closure of a set of edges.
Closure(R) ==
    LET next == R \cup {<<x[1][1], x[2][2]>> : x \in {y \in R \X R : y[1][2] = y[2][1]}}
    IN  IF next = R THEN R ELSE Closure(next)

\* Some node reaches itself along one or more edges.
HasCycle(edges) == \E e \in Closure(edges) : e[1] = e[2]

\* Weight a table gives to a full assignment of values to variables.
Weight(t, a) ==
    SumW(SelectSeq(t.rows, LAMBDA r : \A i \in 1..Len(t.names) : r[1][i] = a[t.names[i]]))

RECURSIVE Product(_, _, _)
Product(Pm, S, a) ==
    IF S = {} THEN 1
    ELSE LET n == CHOOSE x \in S : TRUE
         IN  Weight(Pm[n], a) * Product(Pm, S \ {n}, a)

RECURSIVE SumOver(_, _, _)
SumOver(Pm, S, as) ==
    IF as = {} THEN 0
    ELSE LET a == CHOOSE x \in as : TRUE
         IN  Product(Pm, S, a) + SumOver(Pm, S, as \ {a})

\* Probability of the evidence under the network, in units of
\* 1/Denom^(number of nodes): the joint distribution summed over every
\* full assignment that agrees with the evidence.
EvidenceWeight(Pm, ev) ==
    SumOver(Pm, DOMAIN Pm,
            {a \in [DOMAIN Pm -> Vals] : \A v \in DOMAIN ev : a[v] = ev[v]})

RECURSIVE EliminateAll(_, _)
\* The elimination loop run over the hidden nodes in a given order.
EliminateAll(fs, order) ==
    IF order = <<>> THEN fs
    ELSE EliminateAll(EliminateStep(fs, Head(order)), Tail(order))

\* The answer of query(q, ev) on a network, relevant and hidden both
\* processed in lexical order.
LexicalAnswer(par, Pm, q, ev) ==
    Shape(Posterior(EliminateAll(InitialFactors(Pm, SortedVars(Relevant(par, q, ev)), ev),
                                 SortedVars(Hidden(par, q, ev))),
                    q))

RECURSIVE SumFrac(_)
\* The sum of the fractions of a sequence of rows, as a reduced <<num, den>>;
\* a NaN among them makes the sum NaN.
SumFrac(rows) ==
    IF rows = <<>> THEN <<0, 1>>
    ELSE LET r == SumFrac(Tail(rows))
             f == Head(rows)[2]
         IN  Frac(f[1] * r[2] + r[1] * f[2], f[2] * r[2])

\* The weights of a normalised table sum to 1.
SumsToOne(t) ==
    LET s == SumFrac(t.rows) IN s[2] # 0 /\ s[1] = s[2]

\* No two rows of the table have the same key.
UniqueRows(t) ==
    \A i, j \in 1..Len(t.rows) : t.rows[i][1] = t.rows[j][1] => i = j

\* A query call has returned a table.
Answered == phase = "returned" /\ outcome = "ok"

\* -------------------------------------------------------------- claims --

\* C1 as stated: whenever query returns a table, for any evidence disjoint
\* from the query variables, the weights of the table returned by
\* variable_elimination and of the one returned by query sum to 1.
C1_SumsToOneAlways ==
    Answered => SumsToOne(posterior) /\ SumsToOne(answer)

\* C1 amended: the weights sum to 1 provided the evidence has non-zero
\* probability under the network.
C1_SumsToOne ==
    (Answered /\ EvidenceWeight(P, evid) > 0) => SumsToOne(posterior) /\ SumsToOne(answer)

\* A query with evidence of non-zero probability on a node with a parent,
\* and a hidden variable summed out, has returned.
C1_Witness ==
    /\ Answered
    /\ evid # Empty
    /\ Hidden(parents, qvars, evid) # {}
    /\ EvidenceWeight(P, evid) > 0
    /\ \E r \in Range(answer.rows) : r[2] \notin {<<0, 1>>, <<1, 1>>}

\* C2: a query call with no query variables ends with EmptyQueryError, one
\* with a query variable among the evidence keys ends with
\* VariableConflictError; in both cases variable_elimination is not entered
\* and no table is returned.
C2_InvalidQueryRaises ==
    phase \in {"eliminating", "returned"} =>
        /\ qvars = {} =>
              outcome = "EmptyQueryError" /\ ~invoked /\ posterior = NoTable /\ answer = NoTable
        /\ qvars \cap DOMAIN evid # {} =>
              outcome = "VariableConflictError" /\ ~invoked /\ posterior = NoTable /\ answer = NoTable

\* A call whose query variables overlap the evidence keys without all of
\* them being evidence has ended.
C2_Witness ==
    /\ phase = "returned"
    /\ qvars \cap DOMAIN evid # {}
    /\ qvars \ DOMAIN evid # {}
    /\ outcome = "VariableConflictError"

\* C3: the table a successful call returns has exactly the query variables
\* as its levels, each once, and at most one row per assignment of them.
C3_ScopeIsQuery ==
    Answered =>
        /\ Range(posterior.names) = qvars
        /\ Len(posterior.names) = Cardinality(qvars)
        /\ UniqueRows(posterior)
        /\ Range(answer.names) = qvars
        /\ Len(answer.names) = Cardinality(qvars)
        /\ UniqueRows(answer)

\* A query with evidence on a child and a hidden variable has returned.
C3_Witness ==
    /\ Answered
    /\ Hidden(parents, qvars, evid) # {}
    /\ \E v \in DOMAIN evid : GetParents(parents, v) # <<>>
    /\ Len(answer.rows) > 1

\* C4: whatever the order in which the hidden variables were processed
\* (and the factors listed), the table returned is the one obtained with
\* the hidden variables processed in lexical order.
C4_OrderInvariant ==
    Answered =>
        /\ answer = LexicalAnswer(parents, P, qvars, evid)
        /\ Shape(posterior) = answer

\* A query with two hidden variables, whose answer is not degenerate, has
\* returned.
C4_Witness ==
    /\ Answered
    /\ Cardinality(Hidden(parents, qvars, evid)) >= 2
    /\ \E r \in Range(answer.rows) : r[2] \notin {<<0, 0>>, <<0, 1>>, <<1, 1>>}

\* The store as prepare() leaves it, from the tables as supplied.
PreparedStore == [n \in DOMAIN supplied |-> PrepareOne(parents, n, supplied[n])]

\* C5: after prepare(), the stored table of every node whose supplied table
\* is labeled with exactly parents(node) and the node, in any order, has its
\* levels in canonical order.
C5_LabeledCanonical ==
    phase = "prepared" =>
        \A n \in DOMAIN P :
            Range(supplied[n].names) = Range(CanonNames(parents, n)) =>
                P[n].names = CanonNames(parents, n)

\* C6: prepare() does not succeed when a supplied table carries explicit
\* labels whose set is not parents(node) and the node.
C6_MislabeledRejected ==
    phase = "prepared" =>
        \A n \in DOMAIN supplied :
            \/ \A i \in 1..Len(supplied[n].names) : supplied[n].names[i] = NoName
            \/ Range(supplied[n].names) = Range(CanonNames(parents, n))

\* C7: the constructor raises CycleError exactly when the expanded edges of
\* the structure contain a directed cycle; otherwise it builds the network.
C7_CycleRejected ==
    phase # "new" =>
        /\ (phase = "failed" /\ outcome = "CycleError") <=> HasCycle(ExpandEdges(structure))
        /\ phase = "built" <=> ~HasCycle(ExpandEdges(structure))

\* Construction has failed on a structure with a self-edge.
C7_Witness ==
    /\ phase = "failed"
    /\ \E e \in ExpandEdges(structure) : e[1] = e[2]

\* C8, every step from preparation on (a query call raising, starting,
\* running an iteration or returning, and the caller moving on): the graph
\* and the store are left as they were.
C8_Frame ==
    phase \in {"prepared", "eliminating", "returned"} =>
        UNCHANGED <<parents, children, nodes, P>>

\* C8, every returned table: it is the one the network as prepared
\* determines for the call's arguments, whatever calls came before.
C8_SameTable ==
    Answered => answer = LexicalAnswer(parents, PreparedStore, qvars, evid)

\* C8: after preparation, any sequence of query calls leaves parents,
\* children, nodes and every stored table unchanged, and a query returns the
\* same table whatever calls came before it.
C8_QueriesLeaveNetwork == [][C8_Frame]_vars /\ []C8_SameTable

\* A query with evidence that filters some stored table has returned.
C8_Witness ==
    /\ Answered
    /\ evid # Empty
    /\ Cardinality(Relevant(parents, qvars, evid)) >= 2

\* Nodes that can have been added last to the network without touching the
\* query: childless, and outside the relevant set.
Barren(q, ev) ==
    {x \in DOMAIN P : x \notin DOMAIN children /\ x \notin Relevant(parents, q, ev)}

Without(f, x) == [n \in DOMAIN f \ {x} |-> f[n]]

\* C9: the table returned is the one returned on the network without any
\* one of its barren nodes.
C9_BarrenInvariant ==
    Answered =>
        \A x \in Barren(qvars, evid) :
            answer = LexicalAnswer(Without(parents, x), Without(P, x), qvars, evid)

\* A query has returned on a network where a child of a relevant node is
\* barren.
C9_Witness ==
    /\ Answered
    /\ \E x \in Barren(qvars, evid) :
          \E i \in 1..Len(GetParents(parents, x)) :
              parents[x][i] \in Relevant(parents, qvars, evid)

\* C10, at every point of the loop: each hidden variable still to process is
\* in the scope of some factor, no factor has a processed one in its scope,
\* and the join was never handed an empty collection.
C10_WorkingSet ==
    /\ outcome \notin {"TypeError", "ValueError"}
    /\ phase = "eliminating" =>
          /\ \A h \in todo : \E i \in 1..Len(factors) : h \in Range(factors[i].names)
          /\ \A i \in 1..Len(factors) : Range(factors[i].names) \cap processed = {}

\* C10, each iteration: the factors that contain the variable, at least one,
\* are replaced by one new factor at the end of the list.
C10_Step ==
    (phase = "eliminating" /\ phase' = "eliminating") =>
        \E h \in todo :
            LET k == Len(SelectSeq(factors, LAMBDA f : h \in Range(f.names)))
            IN  /\ todo' = todo \ {h}
                /\ processed' = processed \cup {h}
                /\ k >= 1
                /\ Len(factors') = Len(factors) - k + 1
                /\ SubSeq(factors', 1, Len(factors') - 1)
                       = SelectSeq(factors, LAMBDA f : h \notin Range(f.names))
                /\ Range(factors'[Len(factors')].names)
                       = UNION {Range(f.names) :
                                   f \in {g \in Range(factors) : h \in Range(g.names)}} \ {h}

\* C10: the working-set invariant of the elimination loop.
C10_LoopInvariant == []C10_WorkingSet /\ [][C10_Step]_vars

\* The loop is between two iterations.
C10_Witness ==
    /\ phase = "eliminating"
    /\ processed # {}
    /\ todo # {}

====
